---- MODULE Spec2Model ----
(***************************************************************************)
(* A model of github.com/jamescun/doh: the Question <-> URL parameter      *)
(* mapping and the ReturnCode symbol table (doh.go), the DNS-over-HTTPS    *)
(* server handler (Server.ServeHTTP) and the client (Client.Do).           *)
(*                                                                         *)
(* Go strings are TLA+ strings; a nil pointer, slice or func is Nil.       *)
(***************************************************************************)
EXTENDS Integers, Sequences, FiniteSets, TLC

VARIABLES
    qIn,      \* the Question given to Question.Values
    qVals,    \* the url.Values under conversion
    qOut,     \* the Question QuestionFromValues returned
    qst,      \* position of the conversion: start, encoded, raw, decoded_enc, decoded_raw
    rc,       \* a ReturnCode
    rcStr,    \* the result of rc.String(), NotYet before the call
    server,   \* the Server: Handler, AllowHTTP
    spc,      \* per ServeHTTP call: idle, handler, encode, done
    sreq,     \* per ServeHTTP call: the *http.Request
    sw,       \* per ServeHTTP call: the http.ResponseWriter (status, Content-Type, body)
    sres,     \* per ServeHTTP call: what the Handler returned
    scalls,   \* per ServeHTTP call: how many times the Handler was invoked
    client,   \* the Client: Addr, HTTPClient, AllowHTTP
    cpc,      \* per Do call: idle, default, ready, sent, done
    cq,       \* per Do call: the Question
    creq,     \* per Do call: the *http.Request given to the transport
    csent,    \* per Do call: how many times the transport was dispatched
    cresp,    \* per Do call: what the transport returned
    cres,     \* per Do call: the returned *Answer
    cerr      \* per Do call: the returned error

qvars == <<qIn, qVals, qOut, qst>>
rcvars == <<rc, rcStr>>
svars == <<server, spc, sreq, sw, sres, scalls>>
cvars == <<client, cpc, cq, creq, csent, cresp, cres, cerr>>
vars == <<qIn, qVals, qOut, qst, rc, rcStr, server, spc, sreq, sw, sres, scalls,
          client, cpc, cq, creq, csent, cresp, cres, cerr>>

\* a nil pointer, slice, func or error
Nil == [nil |-> TRUE]
\* a result not produced yet
NotYet == [notyet |-> TRUE]

-----------------------------------------------------------------------------
(* Bounds *)

\* width of Go's int in the model (64 in the build; every type code of the
\* package fits in 17 bits)
IntBits == 17

\* how far below Success and above BadCookie the return codes are drawn
RCodePad == 18

\* ServeHTTP calls in flight on one Server
NumReqs == 2

\* Do calls in flight on one Client
NumCalls == 2

RECURSIVE Pow2(_)
Pow2(n) == IF n = 0 THEN 1 ELSE 2 * Pow2(n - 1)

MaxInt == Pow2(IntBits - 1) - 1
MinInt == 0 - Pow2(IntBits - 1)

-----------------------------------------------------------------------------
(* strconv *)

Digits == <<"0", "1", "2", "3", "4", "5", "6", "7", "8", "9">>

IsDigit(c) == \E d \in 1..10 : Digits[d] = c

DigitVal(c) == (CHOOSE d \in 1..10 : Digits[d] = c) - 1

CharAt(s, i) == SubSeq(s, i, i)

\* strconv.Itoa on a non-negative number
RECURSIVE UItoa(_)
UItoa(n) == IF n < 10 THEN Digits[n + 1] ELSE UItoa(n \div 10) \o Digits[(n % 10) + 1]

Itoa(n) == IF n < 0 THEN "-" \o UItoa(0 - n) ELSE UItoa(n)

\* the digits of s from position i on, accumulated into acc and saturating
\* just above the cutoff 2^(IntBits-1) as strconv.ParseUint / ParseInt do
RECURSIVE Accumulate(_, _, _)
Accumulate(s, i, acc) ==
    IF i > Len(s) THEN acc
    ELSE LET n == acc * 10 + DigitVal(CharAt(s, i))
         IN  Accumulate(s, i + 1, IF n > MaxInt + 2 THEN MaxInt + 2 ELSE n)

\* strconv.Atoi: the value and the error. A syntax error gives 0, a range
\* error gives the nearest representable int.
Atoi(s) ==
    LET signed == Len(s) > 0 /\ CharAt(s, 1) \in {"+", "-"}
        neg    == Len(s) > 0 /\ CharAt(s, 1) = "-"
        body   == IF signed THEN SubSeq(s, 2, Len(s)) ELSE s
        un     == Accumulate(body, 1, 0)
    IN  IF Len(body) = 0 \/ \E i \in 1..Len(body) : ~IsDigit(CharAt(body, i))
        THEN [n |-> 0, err |-> "syntax"]
        ELSE IF ~neg /\ un > MaxInt THEN [n |-> MaxInt, err |-> "range"]
        ELSE IF neg /\ un > MaxInt + 1 THEN [n |-> MinInt, err |-> "range"]
        ELSE [n |-> IF neg THEN 0 - un ELSE un, err |-> "nil"]

\* strconv.ParseBool: the value and the error
ParseBool(s) ==
    IF s \in {"1", "t", "T", "TRUE", "true", "True"} THEN [b |-> TRUE, err |-> "nil"]
    ELSE IF s \in {"0", "f", "F", "FALSE", "false", "False"} THEN [b |-> FALSE, err |-> "nil"]
    ELSE [b |-> FALSE, err |-> "syntax"]

-----------------------------------------------------------------------------
(* net/url.Values: a map from keys to lists of strings *)

EmptyValues == [k \in {} |-> <<>>]

\* url.Values.Get: the first value of the key, "" when there is none
Get(v, k) == IF k \in DOMAIN v /\ Len(v[k]) > 0 THEN v[k][1] ELSE ""

-----------------------------------------------------------------------------
(* Question and its URL parameters (doh.go) *)

A == 1
AAAA == 28
CAA == 257
DLV == 32769

Question(name, type, cd, subnet) ==
    [Name |-> name, Type |-> type, DisableDNSSEC |-> cd, EDNSClientSubnet |-> subnet]

\* QuestionFromValues: the errors of Atoi and ParseBool are discarded
QuestionFromValues(q) ==
    LET rr0 == Atoi(Get(q, "type")).n
        rr  == IF rr0 < 1 THEN 1 ELSE rr0
    IN  [Name             |-> Get(q, "name"),
         Type             |-> rr,
         DisableDNSSEC    |-> ParseBool(Get(q, "cd")).b,
         EDNSClientSubnet |-> Get(q, "edns_client_subnet")]

\* Values without the edns_client_subnet parameter
ValuesWithoutSubnet(r) ==
    LET name == [k \in {"name"} |-> <<r.Name>>]
        type == [k \in {"type"} |-> IF r.Type > 0 THEN <<Itoa(r.Type)>> ELSE <<"1">>]
        cd   == IF r.DisableDNSSEC THEN [k \in {"cd"} |-> <<"1">>] ELSE EmptyValues
    IN  name @@ type @@ cd

\* Question.Values
Values(r) ==
    LET name == [k \in {"name"} |-> <<r.Name>>]
        type == [k \in {"type"} |-> IF r.Type > 0 THEN <<Itoa(r.Type)>> ELSE <<"1">>]
        cd   == IF r.DisableDNSSEC THEN [k \in {"cd"} |-> <<"1">>] ELSE EmptyValues
        ecs  == IF r.EDNSClientSubnet # ""
                THEN [k \in {"edns_client_subnet"} |-> <<r.EDNSClientSubnet>>]
                ELSE EmptyValues
    IN  name @@ type @@ cd @@ ecs

\* rrNameToInt
rrNameToInt ==
    [A |-> 1, NS |-> 2, CNAME |-> 5, SOA |-> 6, PTR |-> 12, HINFO |-> 13, MX |-> 15,
     TXT |-> 16, RP |-> 17, AFSDB |-> 18, SIG |-> 24, KEY |-> 25, AAAA |-> 28, LOC |-> 29,
     SRV |-> 33, NAPTR |-> 35, KX |-> 36, CERT |-> 37, DNAME |-> 39, OPT |-> 41, APL |-> 42,
     DS |-> 43, SSHFP |-> 44, IPSECKEY |-> 45, RRSIG |-> 46, NSEC |-> 47, DNSKEY |-> 48,
     DHCID |-> 49, NSEC3 |-> 50, NSEC3PARAM |-> 51, TLSA |-> 52, HIP |-> 55, CDS |-> 59,
     CDNSKEY |-> 60, OPENPGPKEY |-> 61, SPF |-> 99, TKEY |-> 249, TSIG |-> 250, IXFR |-> 251,
     AXFR |-> 252, ANY |-> 255, URI |-> 256, CAA |-> 257, TA |-> 32768, DLV |-> 32769]

\* RecordTypeFromString
RecordTypeFromString(name) ==
    IF name \in DOMAIN rrNameToInt THEN rrNameToInt[name] ELSE 0 - 1


-----------------------------------------------------------------------------
(* ReturnCode (doh.go) *)

Success == 0
FormatError == 1
ServerFailure == 2
NameError == 3
NotImplemented == 4
Refused == 5
YXDomain == 6
YXRrset == 7
NXRrset == 8
NotAuth == 9
NotZone == 10
BadSig == 16
BadVers == 16
BadKey == 17
BadTime == 18
BadMode == 19
BadName == 20
BadAlg == 21
BadTrunc == 22
BadCookie == 23

\* ReturnCode.String: the switch, case by case
String(code) ==
    CASE code = Success        -> "NOERROR"
      [] code = FormatError    -> "FORMERR"
      [] code = ServerFailure  -> "SERVFAIL"
      [] code = NameError      -> "NXDOMAIN"
      [] code = NotImplemented -> "NOTIMP"
      [] code = Refused        -> "REFUSED"
      [] code = YXDomain       -> "YXDOMAIN"
      [] code = YXRrset        -> "YXRRSET"
      [] code = NXRrset        -> "NXRRSET"
      [] code = NotAuth        -> "NOTAUTH"
      [] code = NotZone        -> "NOTZONE"
      [] code = BadSig         -> "BADSIG"
      [] code = BadKey         -> "BADKEY"
      [] code = BadTime        -> "BADTIME"
      [] code = BadMode        -> "BADMODE"
      [] code = BadAlg         -> "BADALG"
      [] code = BadTrunc       -> "BADTRUNC"
      [] code = BadCookie      -> "BADCOOKIE"
      [] OTHER                 -> "UNKNOWN"

-----------------------------------------------------------------------------
(* Record, Answer and their JSON encoding (doh.go, encoding/json) *)

\* a non-nil slice
Slice(seq) == [elems |-> seq]

Record(name, type, ttl, data) == [Name |-> name, Type |-> type, TTL |-> ttl, Data |-> data]

\* Answer{}: every field at its zero value
ZeroAnswer ==
    [Status |-> Success, Truncated |-> FALSE, RecursionDesired |-> FALSE,
     RecursionAvailable |-> FALSE, DNSSECValidated |-> FALSE, DNSSECDisabled |-> FALSE,
     Question |-> Nil, Answer |-> Nil, Authority |-> Nil, Additional |-> Nil,
     Comment |-> "", EdnsClientSubnet |-> ""]

\* JSON values, each a record of the one field that names its kind
JNull == [null |-> TRUE]
JNum(n) == [num |-> n]
JBool(b) == [bool |-> b]
JStr(x) == [str |-> x]
JArr(seq) == [arr |-> seq]
JObj(members) == [obj |-> members]

Kind(j) == CHOOSE f \in DOMAIN j : TRUE

\* one member of a JSON object
Member(key, value) == <<[k |-> key, v |-> value]>>

\* a member with the omitempty option
OmitEmpty(key, empty, value) == IF empty THEN <<>> ELSE Member(key, value)

IsEmptySlice(sl) == sl = Nil \/ Len(sl.elems) = 0

\* Question by its json tags
EncodeQuestion(q) ==
    JObj(Member("name", JStr(q.Name))
         \o Member("type", JNum(q.Type))
         \o Member("CD", JBool(q.DisableDNSSEC))
         \o OmitEmpty("edns_client_subnet", q.EDNSClientSubnet = "", JStr(q.EDNSClientSubnet)))

\* Record by its json tags
EncodeRecord(r) ==
    JObj(Member("name", JStr(r.Name))
         \o Member("type", JNum(r.Type))
         \o Member("TTL", JNum(r.TTL))
         \o Member("data", JStr(r.Data)))

\* Questions and Records as JSON: null when nil, else the array of the
\* encoded elements
EncodeQuestions(sl) ==
    IF sl = Nil THEN JNull ELSE JArr([i \in 1..Len(sl.elems) |-> EncodeQuestion(sl.elems[i])])

EncodeRecords(sl) ==
    IF sl = Nil THEN JNull ELSE JArr([i \in 1..Len(sl.elems) |-> EncodeRecord(sl.elems[i])])

\* Answer by its json tags
EncodeAnswer(a) ==
    JObj(Member("Status", JNum(a.Status))
         \o Member("TC", JBool(a.Truncated))
         \o Member("RD", JBool(a.RecursionDesired))
         \o Member("RA", JBool(a.RecursionAvailable))
         \o Member("AD", JBool(a.DNSSECValidated))
         \o Member("CD", JBool(a.DNSSECDisabled))
         \o Member("Question", EncodeQuestions(a.Question))
         \o Member("Answer", EncodeRecords(a.Answer))
         \o OmitEmpty("Authority", IsEmptySlice(a.Authority),
                      EncodeRecords(a.Authority))
         \o OmitEmpty("Additional", IsEmptySlice(a.Additional),
                      EncodeRecords(a.Additional))
         \o OmitEmpty("Comment", a.Comment = "", JStr(a.Comment))
         \o OmitEmpty("edns_client_subnet", a.EdnsClientSubnet = "", JStr(a.EdnsClientSubnet)))

-----------------------------------------------------------------------------
(* Server (net/http handler) *)

StatusOK == 200
StatusBadRequest == 400
StatusForbidden == 403
StatusUnsupportedMediaType == 415
StatusInternalServerError == 500

\* strings.HasPrefix
HasPrefix(s, prefix) == Len(s) >= Len(prefix) /\ SubSeq(s, 1, Len(prefix)) = prefix

\* a fresh http.ResponseWriter: the header map under construction, the
\* status line written (0: none yet), the Content-Type sent with it, the body
NewResponseWriter == [header |-> "", status |-> 0, sentType |-> "", body |-> Nil]

\* w.Header().Set("Content-Type", v)
SetContentType(w, v) == [w EXCEPT !.header = v]

\* w.WriteHeader(code): the first call commits the status and the headers
WriteHeader(w, code) ==
    IF w.status # 0 THEN w ELSE [w EXCEPT !.status = code, !.sentType = w.header]

\* w.Write(doc): commits 200 when no status was written yet
Write(w, doc) == [WriteHeader(w, StatusOK) EXCEPT !.body = doc]

\* Validate with the Handler check moved before the Accept checks
ValidateHandlerFirst(s, r) ==
    IF r.Method # "GET" THEN StatusBadRequest
    ELSE IF s.Handler = Nil THEN StatusInternalServerError
    ELSE IF Get(r.Header, "Accept") = "" THEN StatusBadRequest
    ELSE IF HasPrefix(Get(r.Header, "Accept"), "application/dns-json")
         THEN StatusUnsupportedMediaType
    ELSE IF r.URL.Scheme # "https" /\ ~s.AllowHTTP THEN StatusForbidden
    ELSE IF QuestionFromValues(r.URL.Query).Name = "" THEN StatusBadRequest
    ELSE StatusOK

\* the validation of ServeHTTP: the status of the check that rejects the
\* request, StatusOK when none does
Validate(s, r) ==
    IF r.Method # "GET" THEN StatusBadRequest
    ELSE IF Get(r.Header, "Accept") = "" THEN StatusBadRequest
    ELSE IF HasPrefix(Get(r.Header, "Accept"), "application/dns-json")
         THEN StatusUnsupportedMediaType
    ELSE IF s.Handler = Nil THEN StatusInternalServerError
    ELSE IF r.URL.Scheme # "https" /\ ~s.AllowHTTP THEN StatusForbidden
    ELSE IF QuestionFromValues(r.URL.Query).Name = "" THEN StatusBadRequest
    ELSE StatusOK

\* ResponseAnswer without the ServerFailure status
ResponseAnswerZero(res) == IF res = Nil THEN ZeroAnswer ELSE res

\* the Answer ServeHTTP encodes for what the Handler returned
ResponseAnswer(res) == IF res = Nil THEN [ZeroAnswer EXCEPT !.Status = ServerFailure] ELSE res

\* the state of the other components while one is exercised
QuestionIdle ==
    /\ qIn = Question("", 0, FALSE, "")
    /\ qVals = EmptyValues
    /\ qOut = Question("", 0, FALSE, "")
    /\ qst = "off"

ReturnCodeIdle == rc = Success /\ rcStr = ""

-----------------------------------------------------------------------------
(* Server.ServeHTTP, one call per request *)

Reqs == 1..NumReqs

Handle == [func |-> "handler"]

Servers == [Handler : {Nil, Handle}, AllowHTTP : BOOLEAN]

Headers ==
    {EmptyValues}
    \cup {[k \in {"Accept"} |-> <<a>>] :
            a \in {"", "application/dns-json", "application/dns-json-extra", "application/json"}}

Queries ==
    {[k \in {"type"} |-> <<"28">>],
     [k \in {"name", "type"} |-> IF k = "name" THEN <<"example.org.">> ELSE <<"28">>]}

Requests ==
    [Method : {"GET", "POST"}, Header : Headers,
     URL : [Scheme : {"https", "http"}, Query : Queries]]

NoRequest == [Method |-> "", Header |-> EmptyValues, URL |-> [Scheme |-> "", Query |-> EmptyValues]]

\* what an application's Handler may return for a question
HandlerResults(q) ==
    {Nil,
     [ZeroAnswer EXCEPT !.Question = Slice(<<q>>),
                        !.Answer = Slice(<<Record(q.Name, q.Type, 300, "::1/128")>>)],
     [ZeroAnswer EXCEPT !.Status = NameError, !.RecursionAvailable = TRUE,
                        !.Answer = Slice(<<>>), !.Comment = "no such name"]}

ServerIdle ==
    /\ server = [Handler |-> Nil, AllowHTTP |-> FALSE]
    /\ spc = [i \in Reqs |-> "idle"]
    /\ sreq = [i \in Reqs |-> NoRequest]
    /\ sw = [i \in Reqs |-> NewResponseWriter]
    /\ sres = [i \in Reqs |-> NotYet]
    /\ scalls = [i \in Reqs |-> 0]

\* ServeBegin leaving the status line of a valid request to the first Write
ServeBeginLateStatus(i, r) ==
    /\ spc[i] = "idle"
    /\ sreq' = [sreq EXCEPT ![i] = r]
    /\ LET status == Validate(server, r)
       IN  IF status # StatusOK
           THEN /\ sw' = [sw EXCEPT ![i] = WriteHeader(@, status)]
                /\ spc' = [spc EXCEPT ![i] = "done"]
           ELSE /\ sw' = [sw EXCEPT ![i] =
                            SetContentType(@, "application/dns-json; charset=utf-8")]
                /\ spc' = [spc EXCEPT ![i] = "handler"]
    /\ UNCHANGED <<server, sres, scalls>>
    /\ UNCHANGED <<qvars, rcvars, cvars>>

\* ServeHTTP up to the call of the Handler: a request that fails a check gets
\* its status and the call returns; one that passes them all gets the
\* Content-Type header and status 200
ServeBegin(i, r) ==
    /\ spc[i] = "idle"
    /\ sreq' = [sreq EXCEPT ![i] = r]
    /\ LET status == Validate(server, r)
       IN  IF status # StatusOK
           THEN /\ sw' = [sw EXCEPT ![i] = WriteHeader(@, status)]
                /\ spc' = [spc EXCEPT ![i] = "done"]
           ELSE /\ sw' = [sw EXCEPT ![i] =
                            WriteHeader(SetContentType(@, "application/dns-json; charset=utf-8"),
                                        StatusOK)]
                /\ spc' = [spc EXCEPT ![i] = "handler"]
    /\ UNCHANGED <<server, sres, scalls>>
    /\ UNCHANGED <<qvars, rcvars, cvars>>

\* res := s.Handler(&req): the application's callback runs and returns
ServeHandler(i) ==
    /\ spc[i] = "handler"
    /\ \E res \in HandlerResults(QuestionFromValues(sreq[i].URL.Query)) :
          sres' = [sres EXCEPT ![i] = res]
    /\ scalls' = [scalls EXCEPT ![i] = @ + 1]
    /\ spc' = [spc EXCEPT ![i] = "encode"]
    /\ UNCHANGED <<server, sreq, sw>>
    /\ UNCHANGED <<qvars, rcvars, cvars>>

\* the rest of ServeHTTP: a nil result becomes a ServerFailure answer, and
\* the answer is encoded into the response
ServeEncode(i) ==
    /\ spc[i] = "encode"
    /\ sw' = [sw EXCEPT ![i] = Write(@, EncodeAnswer(ResponseAnswer(sres[i])))]
    /\ spc' = [spc EXCEPT ![i] = "done"]
    /\ UNCHANGED <<server, sreq, sres, scalls>>
    /\ UNCHANGED <<qvars, rcvars, cvars>>

-----------------------------------------------------------------------------
(* Decoding a response body (unmarshalJSON, RecordType.UnmarshalJSON) *)

\* errors are records; Nil is no error
SyntaxError == [type |-> "json.SyntaxError", text |-> "invalid character"]
UnknownRecordType == [type |-> "errorString", text |-> "unknown record type"]

Decoded(value) == [err |-> Nil, v |-> value]
Failed(e) == [err |-> e, v |-> Nil]

JAbsent == [absent |-> TRUE]

\* the value of the member named key, JAbsent when the object has none
Lookup(obj, key) ==
    IF \E i \in 1..Len(obj.obj) : obj.obj[i].k = key
    THEN obj.obj[CHOOSE i \in 1..Len(obj.obj) : obj.obj[i].k = key].v
    ELSE JAbsent

\* the value of a member of a basic type, its zero value when absent or null
Basic(obj, key, zero) ==
    LET j == Lookup(obj, key) IN IF Kind(j) \in {"absent", "null"} THEN zero ELSE j[Kind(j)]

\* RecordType.UnmarshalJSON: a number, or a quoted mnemonic ("" gives 0)
UnmarshalRecordType(j) ==
    IF Kind(j) = "absent" THEN Decoded(0)
    ELSE IF Kind(j) = "str"
         THEN IF Len(j.str) + 2 < 3 THEN Decoded(0)
              ELSE IF j.str \in DOMAIN rrNameToInt THEN Decoded(rrNameToInt[j.str])
              ELSE Failed(UnknownRecordType)
    ELSE Decoded(j.num)

DecodeQuestion(j) ==
    LET type == UnmarshalRecordType(Lookup(j, "type"))
    IN  IF type.err # Nil THEN Failed(type.err)
        ELSE Decoded(Question(Basic(j, "name", ""), type.v, Basic(j, "CD", FALSE),
                              Basic(j, "edns_client_subnet", "")))

DecodeRecord(j) ==
    LET type == UnmarshalRecordType(Lookup(j, "type"))
    IN  IF type.err # Nil THEN Failed(type.err)
        ELSE Decoded(Record(Basic(j, "name", ""), type.v, Basic(j, "TTL", 0),
                            Basic(j, "data", "")))

\* a slice from its decoded elements: the first element that failed to decode
\* fails the slice
Collect(parts) ==
    LET bad == {i \in 1..Len(parts) : parts[i].err # Nil}
    IN  IF bad # {}
        THEN Failed(parts[CHOOSE i \in bad : \A k \in bad : i <= k].err)
        ELSE Decoded(Slice([i \in 1..Len(parts) |-> parts[i].v]))

\* a Questions or Records member: nil when absent or null
DecodeQuestions(j) ==
    IF Kind(j) \in {"absent", "null"} THEN Decoded(Nil)
    ELSE Collect([i \in 1..Len(j.arr) |-> DecodeQuestion(j.arr[i])])

DecodeRecords(j) ==
    IF Kind(j) \in {"absent", "null"} THEN Decoded(Nil)
    ELSE Collect([i \in 1..Len(j.arr) |-> DecodeRecord(j.arr[i])])

\* unmarshalJSON(body, &x) on a zero Answer x: the error, and x
UnmarshalAnswer(body) ==
    IF Kind(body) # "obj" THEN Failed(SyntaxError)
    ELSE LET qs  == DecodeQuestions(Lookup(body, "Question"))
             an  == DecodeRecords(Lookup(body, "Answer"))
             au  == DecodeRecords(Lookup(body, "Authority"))
             ad  == DecodeRecords(Lookup(body, "Additional"))
         IN  IF qs.err # Nil THEN Failed(qs.err)
             ELSE IF an.err # Nil THEN Failed(an.err)
             ELSE IF au.err # Nil THEN Failed(au.err)
             ELSE IF ad.err # Nil THEN Failed(ad.err)
             ELSE Decoded(
                 [Status             |-> Basic(body, "Status", 0),
                  Truncated          |-> Basic(body, "TC", FALSE),
                  RecursionDesired   |-> Basic(body, "RD", FALSE),
                  RecursionAvailable |-> Basic(body, "RA", FALSE),
                  DNSSECValidated    |-> Basic(body, "AD", FALSE),
                  DNSSECDisabled     |-> Basic(body, "CD", FALSE),
                  Question           |-> qs.v,
                  Answer             |-> an.v,
                  Authority          |-> au.v,
                  Additional         |-> ad.v,
                  Comment            |-> Basic(body, "Comment", ""),
                  EdnsClientSubnet   |-> Basic(body, "edns_client_subnet", "")])

-----------------------------------------------------------------------------
(* Client.Do *)

Calls == 1..NumCalls

UserAgent == "doh/1.0.0 (+https://github.com/jamescun/doh)"

\* http.DefaultClient, and a client of the caller's
DefaultHTTPClient == [httpClient |-> "http.DefaultClient"]
CustomHTTPClient == [httpClient |-> "custom"]

Addrs ==
    {Nil,
     [Scheme |-> "https", Host |-> "dns.google.com", Path |-> "/resolve"],
     [Scheme |-> "http", Host |-> "127.0.0.1:8053", Path |-> "/dns-query"]}

Clients == [Addr : Addrs, HTTPClient : {Nil, CustomHTTPClient}, AllowHTTP : BOOLEAN]

ClientQuestions ==
    {Question("example.org.", A, FALSE, ""),
     Question("example.org.", RecordTypeFromString("bogus"), TRUE, "10.0.0.0/8")}

\* &ClientError{msg, err}, its Cause and Error methods
ClientError(msg, cause) == [type |-> "ClientError", msg |-> msg, err |-> cause]

\* HTTPError(code)
HTTPError(code) == [type |-> "HTTPError", code |-> code]

Cause(ce) == ce.err

RECURSIVE Error(_)
Error(e) ==
    IF e.type = "ClientError"
    THEN IF e.err # Nil THEN e.msg \o ": " \o Error(e.err) ELSE e.msg
    ELSE IF e.type = "HTTPError" THEN "HTTP Error " \o Itoa(e.code)
    ELSE e.text

\* errors of the transport: netError says the error implements net.Error,
\* timeout what its Timeout method returns
TransportErrors ==
    {[type |-> "url.Error", netError |-> TRUE, timeout |-> TRUE,
      text |-> "context deadline exceeded"],
     [type |-> "url.Error", netError |-> TRUE, timeout |-> FALSE,
      text |-> "connection refused"],
     [type |-> "errorString", netError |-> FALSE, timeout |-> FALSE,
      text |-> "transport closed"]}

\* response bodies: not JSON; an encoded answer; an answer whose record type
\* is a mnemonic; an answer whose record type is no mnemonic
Garbage == [text |-> "<html>"]

GoodBody ==
    EncodeAnswer([ZeroAnswer EXCEPT
        !.RecursionDesired = TRUE,
        !.Question = Slice(<<Question("example.org.", A, FALSE, "")>>),
        !.Answer = Slice(<<Record("example.org.", A, 6792, "93.184.216.34")>>)])

MnemonicBody(name) ==
    JObj(Member("Status", JNum(Success))
         \o Member("Answer", JArr(<<JObj(Member("name", JStr("example.org."))
                                        \o Member("type", JStr(name))
                                        \o Member("TTL", JNum(60))
                                        \o Member("data", JStr("::1")))>>)))

Bodies == {Garbage, GoodBody, MnemonicBody("AAAA"), MnemonicBody("aaaa")}

\* what c.HTTPClient.Do(r) may return: an error, or a response
Outcomes ==
    {[err |-> e, resp |-> Nil] : e \in TransportErrors}
    \cup {[err |-> Nil, resp |-> [StatusCode |-> StatusOK, Body |-> b]] : b \in Bodies}
    \cup {[err |-> Nil, resp |-> [StatusCode |-> code, Body |-> b]] :
            code \in {204, 404, StatusUnsupportedMediaType, StatusInternalServerError},
            b \in {Garbage, GoodBody}}

NoOutcome == [err |-> Nil, resp |-> Nil]

\* NewRequest asking for plain JSON
NewRequestPlainJSON(c, q) ==
    [Method |-> "GET",
     URL    |-> [Scheme |-> c.Addr.Scheme, Host |-> c.Addr.Host, Path |-> c.Addr.Path,
                 Query |-> Values(q)],
     Header |-> [k \in {"Accept", "User-Agent"} |->
                    IF k = "Accept" THEN <<"application/json">> ELSE <<UserAgent>>],
     Host   |-> c.Addr.Host]

\* the request Do builds; the query is held as the parameters RawQuery encodes
NewRequest(c, q) ==
    [Method |-> "GET",
     URL    |-> [Scheme |-> c.Addr.Scheme, Host |-> c.Addr.Host, Path |-> c.Addr.Path,
                 Query |-> Values(q)],
     Header |-> [k \in {"Accept", "User-Agent"} |->
                    IF k = "Accept" THEN <<"application/dns-json">> ELSE <<UserAgent>>],
     Host   |-> c.Addr.Host]

\* Precondition without the scheme check
PreconditionAddrOnly(c) ==
    IF c.Addr = Nil THEN ClientError("no server configured", Nil) ELSE Nil

\* the precondition checks of Do: the error, Nil when they pass
Precondition(c) ==
    IF c.Addr = Nil THEN ClientError("no server configured", Nil)
    ELSE IF c.Addr.Scheme # "https" /\ ~c.AllowHTTP THEN ClientError("https required", Nil)
    ELSE Nil

\* Classify decoding the body of every 2xx response
ClassifyAny2xx(out) ==
    IF out.err # Nil
    THEN [res |-> Nil,
          err |-> IF out.err.netError /\ out.err.timeout
                  THEN ClientError("server timeout", out.err)
                  ELSE out.err]
    ELSE IF out.resp.StatusCode >= 200 /\ out.resp.StatusCode < 300
         THEN LET x == UnmarshalAnswer(out.resp.Body)
              IN  IF x.err # Nil THEN [res |-> Nil, err |-> x.err]
                  ELSE [res |-> x.v, err |-> Nil]
    ELSE [res |-> Nil, err |-> HTTPError(out.resp.StatusCode)]

\* Classify wrapping every net.Error as a timeout
ClassifyAnyNetError(out) ==
    IF out.err # Nil
    THEN [res |-> Nil,
          err |-> IF out.err.netError
                  THEN ClientError("server timeout", out.err)
                  ELSE out.err]
    ELSE IF out.resp.StatusCode = StatusOK
         THEN LET x == UnmarshalAnswer(out.resp.Body)
              IN  IF x.err # Nil THEN [res |-> Nil, err |-> x.err]
                  ELSE [res |-> x.v, err |-> Nil]
    ELSE [res |-> Nil, err |-> HTTPError(out.resp.StatusCode)]

\* what Do returns for what the transport returned
Classify(out) ==
    IF out.err # Nil
    THEN [res |-> Nil,
          err |-> IF out.err.netError /\ out.err.timeout
                  THEN ClientError("server timeout", out.err)
                  ELSE out.err]
    ELSE IF out.resp.StatusCode = StatusOK
         THEN LET x == UnmarshalAnswer(out.resp.Body)
              IN  IF x.err # Nil THEN [res |-> Nil, err |-> x.err]
                  ELSE [res |-> x.v, err |-> Nil]
    ELSE [res |-> Nil, err |-> HTTPError(out.resp.StatusCode)]

ClientIdle ==
    /\ client = [Addr |-> Nil, HTTPClient |-> Nil, AllowHTTP |-> FALSE]
    /\ cpc = [i \in Calls |-> "idle"]
    /\ cq = [i \in Calls |-> Question("", 0, FALSE, "")]
    /\ creq = [i \in Calls |-> Nil]
    /\ csent = [i \in Calls |-> 0]
    /\ cresp = [i \in Calls |-> NoOutcome]
    /\ cres = [i \in Calls |-> Nil]
    /\ cerr = [i \in Calls |-> Nil]

\* Do up to the test of c.HTTPClient: the preconditions, then the read that
\* decides whether the default is stored
DoBegin(i, q) ==
    /\ cpc[i] = "idle"
    /\ cq' = [cq EXCEPT ![i] = q]
    /\ LET e == Precondition(client)
       IN  IF e # Nil
           THEN /\ cerr' = [cerr EXCEPT ![i] = e]
                /\ cpc' = [cpc EXCEPT ![i] = "done"]
           ELSE /\ cpc' = [cpc EXCEPT ![i] = IF client.HTTPClient = Nil
                                             THEN "default" ELSE "ready"]
                /\ UNCHANGED cerr
    /\ UNCHANGED <<client, creq, csent, cresp, cres>>
    /\ UNCHANGED <<qvars, rcvars, svars>>

\* c.HTTPClient = http.DefaultClient, by a call that read it as nil
DoDefault(i) ==
    /\ cpc[i] = "default"
    /\ client' = [client EXCEPT !.HTTPClient = DefaultHTTPClient]
    /\ cpc' = [cpc EXCEPT ![i] = "ready"]
    /\ UNCHANGED <<cq, creq, csent, cresp, cres, cerr>>
    /\ UNCHANGED <<qvars, rcvars, svars>>

\* the request is built and handed to c.HTTPClient.Do
DoDispatch(i) ==
    /\ cpc[i] = "ready"
    /\ creq' = [creq EXCEPT ![i] = NewRequest(client, cq[i])]
    /\ csent' = [csent EXCEPT ![i] = @ + 1]
    /\ cpc' = [cpc EXCEPT ![i] = "sent"]
    /\ UNCHANGED <<client, cq, cresp, cres, cerr>>
    /\ UNCHANGED <<qvars, rcvars, svars>>

\* DoReturn sending the request again after a timeout
DoReturnRetry(i, out) ==
    /\ cpc[i] = "sent"
    /\ cresp' = [cresp EXCEPT ![i] = out]
    /\ IF out.err # Nil /\ out.err.netError /\ out.err.timeout /\ csent[i] < 2
       THEN /\ cpc' = [cpc EXCEPT ![i] = "ready"]
            /\ UNCHANGED <<cres, cerr>>
       ELSE /\ cres' = [cres EXCEPT ![i] = Classify(out).res]
            /\ cerr' = [cerr EXCEPT ![i] = Classify(out).err]
            /\ cpc' = [cpc EXCEPT ![i] = "done"]
    /\ UNCHANGED <<client, cq, creq, csent>>
    /\ UNCHANGED <<qvars, rcvars, svars>>

\* c.HTTPClient.Do returns and Do classifies what it returned
DoReturn(i, out) ==
    /\ cpc[i] = "sent"
    /\ cresp' = [cresp EXCEPT ![i] = out]
    /\ cres' = [cres EXCEPT ![i] = Classify(out).res]
    /\ cerr' = [cerr EXCEPT ![i] = Classify(out).err]
    /\ cpc' = [cpc EXCEPT ![i] = "done"]
    /\ UNCHANGED <<client, cq, creq, csent>>
    /\ UNCHANGED <<qvars, rcvars, svars>>

-----------------------------------------------------------------------------
(* Question.Values and QuestionFromValues applied to bounded inputs *)

Questions ==
    [Name : {"", "example.org.", "example.org"},
     Type : {RecordTypeFromString("bogus"), 0, A, AAAA, CAA, DLV, MaxInt},
     DisableDNSSEC : BOOLEAN,
     EDNSClientSubnet : {"", "10.0.0.0/8"}]

\* none, one or several values of a parameter
Param(key, values) ==
    {EmptyValues} \cup {[k \in {key} |-> vs] : vs \in values}

RawValues ==
    {n @@ t @@ c @@ e :
        n \in Param("name", {<<"">>, <<"example.org.">>}),
        t \in Param("type", {<<"0">>, <<"-5">>, <<"abc">>, <<"">>, <<"28">>, <<"+7">>, <<"-">>,
                             <<"2x">>, <<"257", "1">>, <<Itoa(MaxInt)>>,
                             <<Itoa(MaxInt) \o "0">>, <<Itoa(MinInt)>>,
                             <<Itoa(MinInt) \o "0">>}),
        c \in Param("cd", {<<"1">>, <<"true">>, <<"0">>, <<"yes">>, <<"">>}),
        e \in Param("edns_client_subnet", {<<"10.0.0.0/8">>})}

\* q.Values()
ToValues ==
    /\ qst = "start"
    /\ qVals' = Values(qIn)
    /\ qst' = "encoded"
    /\ UNCHANGED <<qIn, qOut>>
    /\ UNCHANGED <<rcvars, svars, cvars>>

\* the parameters of an incoming request, with no Question under conversion
RawQuery(v) ==
    /\ qst = "start"
    /\ qIn = Question("", 0, FALSE, "")
    /\ qVals' = v
    /\ qst' = "raw"
    /\ UNCHANGED <<qIn, qOut>>
    /\ UNCHANGED <<rcvars, svars, cvars>>

\* QuestionFromValues(qVals)
FromValues ==
    /\ qst \in {"encoded", "raw"}
    /\ qOut' = QuestionFromValues(qVals)
    /\ qst' = IF qst = "encoded" THEN "decoded_enc" ELSE "decoded_raw"
    /\ UNCHANGED <<qIn, qVals>>
    /\ UNCHANGED <<rcvars, svars, cvars>>

-----------------------------------------------------------------------------
(* ReturnCode.String applied to bounded inputs *)

ReturnCodes == (Success - RCodePad)..(BadCookie + RCodePad)

Stringify ==
    /\ rcStr = ""
    /\ rcStr' = String(rc)
    /\ UNCHANGED rc
    /\ UNCHANGED <<qvars, svars, cvars>>

-----------------------------------------------------------------------------
(* Specifications *)

InitQuestion ==
    /\ qIn \in Questions
    /\ qVals = EmptyValues
    /\ qOut = Question("", 0, FALSE, "")
    /\ qst = "start"
    /\ ReturnCodeIdle /\ ServerIdle /\ ClientIdle

NextQuestion ==
    \/ ToValues
    \/ \E v \in RawValues : RawQuery(v)
    \/ FromValues

SpecQuestion == InitQuestion /\ [][NextQuestion]_vars

InitReturnCode ==
    /\ rc \in ReturnCodes
    /\ rcStr = ""
    /\ QuestionIdle /\ ServerIdle /\ ClientIdle

NextReturnCode == Stringify

SpecReturnCode == InitReturnCode /\ [][NextReturnCode]_vars

InitServer ==
    /\ server \in Servers
    /\ spc = [i \in Reqs |-> "idle"]
    /\ sreq = [i \in Reqs |-> NoRequest]
    /\ sw = [i \in Reqs |-> NewResponseWriter]
    /\ sres = [i \in Reqs |-> NotYet]
    /\ scalls = [i \in Reqs |-> 0]
    /\ QuestionIdle /\ ReturnCodeIdle /\ ClientIdle

NextServer ==
    \/ \E i \in Reqs, r \in Requests : ServeBegin(i, r)
    \/ \E i \in Reqs : ServeHandler(i)
    \/ \E i \in Reqs : ServeEncode(i)

SpecServer == InitServer /\ [][NextServer]_vars

InitClient ==
    /\ client \in Clients
    /\ cpc = [i \in Calls |-> "idle"]
    /\ cq = [i \in Calls |-> Question("", 0, FALSE, "")]
    /\ creq = [i \in Calls |-> Nil]
    /\ csent = [i \in Calls |-> 0]
    /\ cresp = [i \in Calls |-> NoOutcome]
    /\ cres = [i \in Calls |-> Nil]
    /\ cerr = [i \in Calls |-> Nil]
    /\ QuestionIdle /\ ReturnCodeIdle /\ ServerIdle

NextClient ==
    \/ \E i \in Calls, q \in ClientQuestions : DoBegin(i, q)
    \/ \E i \in Calls : DoDefault(i)
    \/ \E i \in Calls : DoDispatch(i)
    \/ \E i \in Calls, out \in Outcomes : DoReturn(i, out)

SpecClient == InitClient /\ [][NextClient]_vars

-----------------------------------------------------------------------------
(* Properties of Server.ServeHTTP *)

\* the Accept header of call i's request, as the handler reads it
AcceptOf(i) == Get(sreq[i].Header, "Accept")

\* the six checks of the validation sequence, each true when it rejects
Check1(i) == sreq[i].Method # "GET"
Check2(i) == AcceptOf(i) = ""
Check3(i) == HasPrefix(AcceptOf(i), "application/dns-json")
Check4(i) == server.Handler = Nil
Check5(i) == sreq[i].URL.Scheme # "https" /\ ~server.AllowHTTP
Check6(i) == Get(sreq[i].URL.Query, "name") = ""

PassesAll(i) ==
    ~Check1(i) /\ ~Check2(i) /\ ~Check3(i) /\ ~Check4(i) /\ ~Check5(i) /\ ~Check6(i)

\* C1: the first failing check of the fixed order (method 400, empty Accept
\* 400, Accept with the dns-json prefix 415, no Handler 500, plaintext 403,
\* empty name 400) alone decides the status, whatever the later checks say; a
\* request that passes all six gets 200.
C1_ValidationOrder ==
    \A i \in Reqs :
        spc[i] # "idle" =>
            LET st == sw[i].status
            IN  /\ Check1(i) => st = 400
                /\ (~Check1(i) /\ Check2(i)) => st = 400
                /\ (~Check1(i) /\ ~Check2(i) /\ Check3(i)) => st = 415
                /\ (~Check1(i) /\ ~Check2(i) /\ ~Check3(i) /\ Check4(i)) => st = 500
                /\ (~Check1(i) /\ ~Check2(i) /\ ~Check3(i) /\ ~Check4(i) /\ Check5(i))
                       => st = 403
                /\ (~Check1(i) /\ ~Check2(i) /\ ~Check3(i) /\ ~Check4(i) /\ ~Check5(i)
                    /\ Check6(i)) => st = 400
                /\ PassesAll(i) => st = 200

\* a request rejected with 415 at the third check although the fourth, fifth
\* and sixth checks would reject it too
C1_Witness ==
    \E i \in Reqs :
        /\ spc[i] = "done"
        /\ ~Check1(i) /\ ~Check2(i) /\ Check3(i) /\ Check4(i) /\ Check5(i) /\ Check6(i)
        /\ AcceptOf(i) = "application/dns-json-extra"
        /\ sw[i].status = 415

\* C2: the Handler is invoked exactly once for a request that passes every
\* validation and never for one that fails any; from the moment it is invoked
\* the Content-Type header and status 200 are written, and whatever it returns
\* (nil included) the status stays 200.
C2_HandlerOnceAfterStatus ==
    \A i \in Reqs :
        /\ scalls[i] <= 1
        /\ spc[i] = "done" => scalls[i] = (IF PassesAll(i) THEN 1 ELSE 0)
        /\ spc[i] \in {"idle", "handler"} => scalls[i] = 0
        /\ (spc[i] = "handler" \/ scalls[i] > 0) =>
               /\ sw[i].status = 200
               /\ sw[i].sentType = "application/dns-json; charset=utf-8"

\* a request whose Handler was invoked once, returned nil, and whose response
\* is complete with status 200
C2_Witness ==
    \E i \in Reqs :
        /\ spc[i] = "done"
        /\ scalls[i] = 1
        /\ sres[i] = Nil
        /\ sw[i].status = 200

\* the body of a response whose Handler returned nil
ServerFailureBody ==
    JObj(<<[k |-> "Status", v |-> JNum(2)],
           [k |-> "TC", v |-> JBool(FALSE)],
           [k |-> "RD", v |-> JBool(FALSE)],
           [k |-> "RA", v |-> JBool(FALSE)],
           [k |-> "AD", v |-> JBool(FALSE)],
           [k |-> "CD", v |-> JBool(FALSE)],
           [k |-> "Question", v |-> JNull],
           [k |-> "Answer", v |-> JNull]>>)

\* C3: when the Handler returns nil the body encodes an Answer with Status 2,
\* every other field at its default and no Answer records; when it returns an
\* Answer the body encodes exactly that Answer.
C3_SynthesizedFailure ==
    \A i \in Reqs :
        (spc[i] = "done" /\ scalls[i] = 1) =>
            IF sres[i] = Nil
            THEN /\ sw[i].body = ServerFailureBody
                 /\ UnmarshalAnswer(sw[i].body).v = [ZeroAnswer EXCEPT !.Status = 2]
            ELSE sw[i].body = EncodeAnswer(sres[i])

\* a completed response for a Handler that returned nil, and one for a Handler
\* that returned an answer with a record
C3_Witness ==
    /\ \E i \in Reqs :
          spc[i] = "done" /\ scalls[i] = 1 /\ sres[i] = Nil /\ sw[i].body = ServerFailureBody
    /\ \E i \in Reqs :
          /\ spc[i] = "done" /\ scalls[i] = 1 /\ sres[i] # Nil
          /\ sres[i].Answer # Nil
          /\ Len(sres[i].Answer.elems) = 1

-----------------------------------------------------------------------------
(* Properties of Question.Values and QuestionFromValues *)

\* C4: for every Question q with q.Type > 0, QuestionFromValues(q.Values())
\* equals q in Name, Type, DisableDNSSEC and EDNSClientSubnet.
C4_RoundTrip ==
    (qst = "decoded_enc" /\ qIn.Type > 0) =>
        /\ qOut.Name = qIn.Name
        /\ qOut.Type = qIn.Type
        /\ qOut.DisableDNSSEC = qIn.DisableDNSSEC
        /\ qOut.EDNSClientSubnet = qIn.EDNSClientSubnet

\* a question with the largest type code of the table, DNSSEC disabled and a
\* client subnet, converted to parameters and back
C4_Witness ==
    /\ qst = "decoded_enc"
    /\ qIn.Type = DLV /\ qIn.DisableDNSSEC /\ qIn.EDNSClientSubnet # ""
    /\ qIn.Name = "example.org."
    /\ Get(qVals, "type") = "32769"
    /\ qOut = qIn

\* C5: QuestionFromValues gives Type = A when the type parameter is absent,
\* does not parse as an integer, or parses to a value below 1; a type that
\* parses to an integer >= 1 is kept; a cd parameter that does not parse gives
\* DisableDNSSEC = false.
C5_DefaultCoercion ==
    qst = "decoded_raw" =>
        LET type == Atoi(Get(qVals, "type"))
        IN  /\ ("type" \notin DOMAIN qVals \/ type.err # "nil" \/ type.n < 1)
                   => qOut.Type = A
            /\ (type.err = "nil" /\ type.n >= 1) => qOut.Type = type.n
            /\ ParseBool(Get(qVals, "cd")).err # "nil" => qOut.DisableDNSSEC = FALSE

-----------------------------------------------------------------------------
(* Properties of Client.Do *)

\* the preconditions of Do, on the Client's fields
AddrUnset == client.Addr = Nil
PlaintextRefused == client.Addr # Nil /\ client.Addr.Scheme # "https" /\ ~client.AllowHTTP

\* strings.Contains
Contains(str, sub) ==
    \E k \in 1..(Len(str) - Len(sub) + 1) : SubSeq(str, k, k + Len(sub) - 1) = sub

\* C6: with Addr unset Do fails with "no server configured"; else with a
\* scheme other than https and AllowHTTP false it fails with "https required";
\* in both cases nothing is dispatched to the transport and the answer is nil.
\* With AllowHTTP set a request for a non-https scheme is dispatched.
C6_Preconditions ==
    \A i \in Calls :
        cpc[i] # "idle" =>
            /\ AddrUnset =>
                   /\ cerr[i] # Nil
                   /\ cerr[i].type = "ClientError"
                   /\ Error(cerr[i]) = "no server configured"
                   /\ cpc[i] = "done" /\ csent[i] = 0 /\ creq[i] = Nil /\ cres[i] = Nil
            /\ PlaintextRefused =>
                   /\ cerr[i] # Nil
                   /\ cerr[i].type = "ClientError"
                   /\ Error(cerr[i]) = "https required"
                   /\ cpc[i] = "done" /\ csent[i] = 0 /\ creq[i] = Nil /\ cres[i] = Nil
            /\ (~AddrUnset /\ client.Addr.Scheme # "https" /\ client.AllowHTTP) =>
                   /\ cpc[i] \in {"default", "ready", "sent"} => cerr[i] = Nil
                   /\ cpc[i] \in {"sent", "done"} =>
                          /\ csent[i] = 1
                          /\ creq[i].URL.Scheme = client.Addr.Scheme

\* a call refused for plaintext with nothing dispatched, next to a call not
\* yet started
C6_Witness ==
    \E i \in Calls :
        /\ cpc[i] = "done"
        /\ PlaintextRefused
        /\ Error(cerr[i]) = "https required"
        /\ csent[i] = 0

\* C7: Do never retries: a call whose preconditions pass has dispatched the
\* transport exactly once when it returns, whatever the outcome, and no call
\* dispatches more than once.
C7_NeverRetries ==
    \A i \in Calls :
        /\ csent[i] <= 1
        /\ (cpc[i] = "done" /\ ~AddrUnset /\ ~PlaintextRefused) => csent[i] = 1
        /\ cpc[i] = "sent" => csent[i] = 1

\* a call that ended on a transport timeout, and one that ended on a decode
\* failure, each after one dispatch
C7_Witness ==
    /\ \E i \in Calls :
          /\ cpc[i] = "done" /\ csent[i] = 1
          /\ cresp[i].err # Nil /\ cresp[i].err.timeout
    /\ \E i \in Calls :
          /\ cpc[i] = "done" /\ csent[i] = 1
          /\ cresp[i].err = Nil /\ cresp[i].resp.StatusCode = 200
          /\ cerr[i] # Nil

\* C8: a response with a status other than 200 gives HTTPError(status), no
\* decoding and a nil answer; a 200 response whose body decodes gives the
\* decoded Answer and a nil error; one whose body does not decode gives the
\* decode error unchanged and a nil answer. Do returns a non-nil answer if and
\* only if it returns a nil error.
C8_ResponseClassification ==
    \A i \in Calls :
        cpc[i] = "done" =>
            /\ (cres[i] # Nil) <=> (cerr[i] = Nil)
            /\ (cresp[i].err = Nil /\ cresp[i].resp # Nil) =>
                   LET resp == cresp[i].resp
                       x    == UnmarshalAnswer(resp.Body)
                   IN  /\ resp.StatusCode # 200 =>
                              /\ cerr[i] = [type |-> "HTTPError", code |-> resp.StatusCode]
                              /\ cres[i] = Nil
                       /\ (resp.StatusCode = 200 /\ x.err = Nil) =>
                              cres[i] = x.v /\ cerr[i] = Nil
                       /\ (resp.StatusCode = 200 /\ x.err # Nil) =>
                              cerr[i] = x.err /\ cres[i] = Nil
                       /\ (resp.StatusCode = 200 /\ resp.Body = Garbage) =>
                              cerr[i].type = "json.SyntaxError"
                       /\ (resp.StatusCode = 200 /\ resp.Body = MnemonicBody("aaaa")) =>
                              Error(cerr[i]) = "unknown record type"
                       /\ (resp.StatusCode = 200 /\ resp.Body = MnemonicBody("AAAA")) =>
                              cres[i].Answer.elems[1].Type = AAAA

\* a 404 response with a well-formed body classified as HTTPError(404), and a
\* 200 response decoded into an answer with its record
C8_Witness ==
    /\ \E i \in Calls :
          /\ cpc[i] = "done"
          /\ cresp[i].resp # Nil /\ cresp[i].resp.StatusCode = 404
          /\ cresp[i].resp.Body = GoodBody
          /\ Error(cerr[i]) = "HTTP Error 404" /\ cres[i] = Nil
    /\ \E i \in Calls :
          /\ cpc[i] = "done"
          /\ cresp[i].resp # Nil /\ cresp[i].resp.StatusCode = 200
          /\ cerr[i] = Nil
          /\ cres[i].Answer.elems[1].Data = "93.184.216.34"

\* C9: a transport error that is a timeout is returned as a ClientError whose
\* message contains "server timeout" and whose Cause is the transport error; a
\* transport error that is no timeout is returned as it is; the answer is nil
\* in both cases.
C9_TimeoutClassification ==
    \A i \in Calls :
        (cpc[i] = "done" /\ cresp[i].err # Nil) =>
            /\ cres[i] = Nil
            /\ IF cresp[i].err.netError /\ cresp[i].err.timeout
               THEN /\ cerr[i].type = "ClientError"
                    /\ Contains(Error(cerr[i]), "server timeout")
                    /\ Cause(cerr[i]) = cresp[i].err
               ELSE cerr[i] = cresp[i].err

\* a call that ended on a timeout, wrapped, and one that ended on a refused
\* connection, returned as it was
C9_Witness ==
    /\ \E i \in Calls :
          /\ cpc[i] = "done" /\ cresp[i].err # Nil /\ cresp[i].err.timeout
          /\ Error(cerr[i]) = "server timeout: context deadline exceeded"
    /\ \E i \in Calls :
          /\ cpc[i] = "done" /\ cresp[i].err # Nil
          /\ cresp[i].err.netError /\ ~cresp[i].err.timeout
          /\ cerr[i] = cresp[i].err

-----------------------------------------------------------------------------
(* Properties of ReturnCode.String *)

\* the return codes the package defines, and their IANA mnemonics
DefinedCodes == (Success..NotZone) \cup (BadSig..BadCookie)

Mnemonics(code) ==
    CASE code = 0  -> {"NOERROR"}
      [] code = 1  -> {"FORMERR"}
      [] code = 2  -> {"SERVFAIL"}
      [] code = 3  -> {"NXDOMAIN"}
      [] code = 4  -> {"NOTIMP"}
      [] code = 5  -> {"REFUSED"}
      [] code = 6  -> {"YXDOMAIN"}
      [] code = 7  -> {"YXRRSET"}
      [] code = 8  -> {"NXRRSET"}
      [] code = 9  -> {"NOTAUTH"}
      [] code = 10 -> {"NOTZONE"}
      [] code = 16 -> {"BADSIG", "BADVERS"}
      [] code = 17 -> {"BADKEY"}
      [] code = 18 -> {"BADTIME"}
      [] code = 19 -> {"BADMODE"}
      [] code = 20 -> {"BADNAME"}
      [] code = 21 -> {"BADALG"}
      [] code = 22 -> {"BADTRUNC"}
      [] code = 23 -> {"BADCOOKIE"}
      [] OTHER     -> {}

\* C10: every return code of the table (0 to 10, 16 to 23) stringifies to its
\* IANA mnemonic, code 16 to one fixed mnemonic of its two, and only codes
\* with no constant stringify to "UNKNOWN".
C10_Stringification ==
    rcStr # "" =>
        /\ rc \in DefinedCodes => rcStr \in Mnemonics(rc)
        /\ rcStr = "UNKNOWN" => rc \notin DefinedCodes
        /\ rc = BadSig => rcStr = "BADSIG"

-----------------------------------------------------------------------------
(* Properties of the shared Client and Server *)

\* C11: no call writes shared state: every step of every Do call leaves the
\* Client's Addr, HTTPClient and AllowHTTP as they were, also when HTTPClient
\* is unset, and every step of every ServeHTTP call leaves the Server as it
\* was, so no interleaving of two calls holds a write to a shared field.
C11_NoSharedWrite == [][client' = client /\ server' = server]_vars

\* the Server half of C11: ServeHTTP only reads the Server
C11_ServerReadOnly == [][server' = server]_vars

\* the Client half of C11 for the fields Do only reads
C11_AddrAndAllowHTTPReadOnly ==
    [][client'.Addr = client.Addr /\ client'.AllowHTTP = client.AllowHTTP]_vars

\* C11 for two calls: no step writes the Client while another Do call, which
\* reads the Client's fields, is under way
C11_NoWriteBesideACall ==
    [][client' # client =>
         Cardinality({i \in Calls : cpc[i] \notin {"idle", "done"}}) <= 1]_vars

-----------------------------------------------------------------------------
(* A Client whose transport reaches a Server of this package *)

\* call i of the Client is served by call i of the Server
Slots == Calls \cap Reqs

\* requests of other clients
ForeignRequests ==
    {r \in Requests :
        /\ r.Method = "GET"
        /\ Get(r.Header, "Accept") \in {"application/json", "application/dns-json"}
        /\ Get(r.URL.Query, "name") # ""
        /\ (Get(r.Header, "Accept") = "application/dns-json" => r.URL.Scheme = "https")}

\* the request as the Server's handler receives it: the scheme is the one the
\* client used, or empty as net/http leaves it for an origin-form request
Delivered(req, scheme) ==
    [Method |-> req.Method, Header |-> req.Header,
     URL |-> [Scheme |-> scheme, Query |-> req.URL.Query]]

\* the response the transport hands back to Do
ResponseOf(w) == [err |-> Nil, resp |-> [StatusCode |-> w.status, Body |-> w.body]]

\* a Do call starts on a free slot
CallBegin(i, q) ==
    /\ spc[i] = "idle"
    /\ DoBegin(i, q)

\* c.HTTPClient.Do(r) reaches the Server: ServeHTTP starts on the request
Deliver(i, scheme) ==
    /\ cpc[i] = "sent"
    /\ spc[i] = "idle"
    /\ scheme \in {creq[i].URL.Scheme, ""}
    /\ ServeBegin(i, Delivered(creq[i], scheme))

\* ServeHTTP starts on the request of another client
Foreign(i, r) ==
    /\ cpc[i] = "idle"
    /\ r \in ForeignRequests
    /\ ServeBegin(i, r)

\* ServeHTTP has returned: c.HTTPClient.Do returns its response to Do
Respond(i) ==
    /\ cpc[i] = "sent"
    /\ spc[i] = "done"
    /\ DoReturn(i, ResponseOf(sw[i]))

InitCompose ==
    /\ client \in Clients
    /\ cpc = [i \in Calls |-> "idle"]
    /\ cq = [i \in Calls |-> Question("", 0, FALSE, "")]
    /\ creq = [i \in Calls |-> Nil]
    /\ csent = [i \in Calls |-> 0]
    /\ cresp = [i \in Calls |-> NoOutcome]
    /\ cres = [i \in Calls |-> Nil]
    /\ cerr = [i \in Calls |-> Nil]
    /\ server \in Servers
    /\ spc = [i \in Reqs |-> "idle"]
    /\ sreq = [i \in Reqs |-> NoRequest]
    /\ sw = [i \in Reqs |-> NewResponseWriter]
    /\ sres = [i \in Reqs |-> NotYet]
    /\ scalls = [i \in Reqs |-> 0]
    /\ QuestionIdle /\ ReturnCodeIdle

NextCompose ==
    \/ \E i \in Slots, q \in ClientQuestions : CallBegin(i, q)
    \/ \E i \in Slots : DoDefault(i)
    \/ \E i \in Slots : DoDispatch(i)
    \/ \E i \in Slots, scheme \in {"https", "http", ""} : Deliver(i, scheme)
    \/ \E i \in Slots, r \in ForeignRequests : Foreign(i, r)
    \/ \E i \in Slots : ServeHandler(i)
    \/ \E i \in Slots : ServeEncode(i)
    \/ \E i \in Slots : Respond(i)

SpecCompose == InitCompose /\ [][NextCompose]_vars

\* C12: every request Do builds is a GET with Accept: application/dns-json;
\* handled by ServeHTTP it is rejected at the third check with 415 and the
\* Handler is not invoked for it; Do returns HTTPError(415) and a nil answer,
\* whatever the Question, the Handler and the AllowHTTP settings.
C12_ClientRejectedByServer ==
    \A i \in Slots :
        /\ creq[i] # Nil =>
               /\ creq[i].Method = "GET"
               /\ creq[i].Header["Accept"] = <<"application/dns-json">>
        /\ (cpc[i] # "idle" /\ spc[i] # "idle") =>
               /\ sreq[i].Method = "GET"
               /\ Get(sreq[i].Header, "Accept") = "application/dns-json"
               /\ spc[i] = "done"
               /\ sw[i].status = 415
               /\ sw[i].body = Nil
               /\ scalls[i] = 0
               /\ sres[i] = NotYet
        /\ (cpc[i] = "done" /\ csent[i] = 1) =>
               /\ cerr[i] = [type |-> "HTTPError", code |-> 415]
               /\ Error(cerr[i]) = "HTTP Error 415"
               /\ cres[i] = Nil

\* a Do call returned HTTPError(415) by a Server that has a Handler and
\* allows plaintext, while the same Server answered another client's request
\* with 200 after invoking the Handler
C12_Witness ==
    /\ server.Handler # Nil /\ server.AllowHTTP /\ client.AllowHTTP
    /\ \E i \in Slots :
          /\ cpc[i] = "done" /\ csent[i] = 1
          /\ cq[i].EDNSClientSubnet # ""
          /\ sw[i].status = 415 /\ scalls[i] = 0
          /\ Error(cerr[i]) = "HTTP Error 415" /\ cres[i] = Nil
    /\ \E j \in Slots :
          /\ cpc[j] = "idle" /\ spc[j] = "done"
          /\ sw[j].status = 200 /\ scalls[j] = 1

====
